---------------------------- MODULE Spec2Model ----------------------------
(***************************************************************************)
(* Model of the package `transport`: the Numerov integrator                *)
(* (transport/solvers.py) and the one-dimensional scattering solver        *)
(* (transport/scatter1d.py).                                               *)
(*                                                                         *)
(* Numbers.  The code computes with floating-point numbers and uses of    *)
(* them only +, -, *, / and np.exp(1J*m*k*dx) for integers m.  The model   *)
(* computes exactly; rounding is not modelled.  A direct caller of numerov *)
(* passes rationals, and the model computes in Q (a number is a reduced    *)
(* fraction <<num, den>>).  The scattering functions multiply by complex   *)
(* exponentials, and there the model computes in the prime field GF(P):    *)
(* np.exp(1J*x) is x |-> G^x for a generator G of the field's units, which *)
(* keeps exp(1J*(x+y)) = exp(1J*x)*exp(1J*y) and exp(0) = 1.  Energies and *)
(* the step dx are small integers (so that their sign and np.sqrt are      *)
(* defined) and enter the arithmetic through Emb.  In both, a division by  *)
(* zero gives the absorbing value NaN (the code's inf/nan).                *)
(*                                                                         *)
(* Types.  np.empty(n, dtype=type(y0+y1)) gives the buffer of the full     *)
(* mode the type of the seeds.  A float stored into a buffer of integers   *)
(* is truncated toward zero.                                               *)
(*                                                                         *)
(* Arrays.  An array is a sequence of rows, a row is a sequence over the   *)
(* energy (batch) dimension; a Python scalar is a row of length 1.         *)
(* Positions are 1-based: the code's index i is position i+1.              *)
(***************************************************************************)
EXTENDS Integers, Sequences, FiniteSets, TLC

\* ------------------------------------------------------------------ bounds
\* The field is GF(P), P the least prime above FieldMin.
FieldMin == 6
\* Longest coefficient sequence handed to numerov by a direct caller.
MaxQ == 4
\* Largest value of q, y0, y1 a direct caller of numerov passes.
MaxVal == 2
\* Longest potential.
MaxN == 2
\* Largest potential value.
MaxV == 2
\* Largest wave number: the energies are the squares 0, 1, .., MaxK^2.
MaxK == 2
\* Longest batch of energies.
MaxE == 2
\* Largest |dx|.
MaxDx == 2
\* Calls made in one session.
MaxCalls == 2
\* Most columns (energies) of a q that a direct caller of numerov passes.
MaxCols == 2
\* Longest q of several columns, and the largest value in it and its seeds.
MaxBatchQ == 3
MaxBatchVal == 1

\* ------------------------------------------------------------ the state
\* A session is one caller's run: a test of the integrator, which calls
\* numerov on its own q, y0, y1 (tests/test_solvers.py), or a scattering
\* script, which calls amplitudes and wavefunction on its own potential and
\* energies (tests/test_scatter1d.py, examples/).
VARIABLES
    sess,   \* "solver" or "scatter"
    heap,   \* the caller's buffers: heap.q, heap.v, heap.e
    dxin,     \* the caller's step
    s0in,   \* the seeds a solver session passes
    s1in,
    skind,  \* and their type: "int" or "float"
    calls,  \* calls made so far
    fr,     \* the last call: its frame, its key and the heap before it
    out     \* per key, the first call with that key: its outcome and locals

vars == <<sess, heap, dxin, s0in, s1in, skind, calls, fr, out>>

\* ------------------------------------------------------------ numbers
IsPrime(p) == p > 1 /\ \A d \in 2..(p - 1) : p % d # 0

P == CHOOSE p \in (FieldMin + 1)..(2 * FieldMin + 2) :
        IsPrime(p) /\ \A r \in (FieldMin + 1)..(p - 1) : ~IsPrime(r)

\* The numbers are rationals in a session of a direct caller of numerov,
\* elements of GF(P) in a session of a scattering script.
Exact == sess # "scatter"

Abs(x) == IF x < 0 THEN -x ELSE x

RECURSIVE Gcd(_, _)
Gcd(x, y) == IF y = 0 THEN x ELSE Gcd(y, x % y)

\* the fraction n/d, reduced, its denominator positive; n/0 is <<0, 0>>.
Rat(n, d) ==
    IF d = 0 THEN <<0, 0>>
    ELSE LET g == Gcd(Abs(n), Abs(d))
         IN  IF d < 0 THEN <<(-n) \div g, (-d) \div g>> ELSE <<n \div g, d \div g>>

\* A non-finite float (inf or nan).
NaN == IF Exact THEN <<0, 0>> ELSE P

IsNaN(x) == x = NaN

\* the integer i as a number
Emb(i) == IF Exact THEN <<i, 1>> ELSE i % P

FAdd(x, y) ==
    IF IsNaN(x) \/ IsNaN(y) THEN NaN
    ELSE IF Exact THEN Rat(x[1] * y[2] + y[1] * x[2], x[2] * y[2]) ELSE (x + y) % P

FSub(x, y) ==
    IF IsNaN(x) \/ IsNaN(y) THEN NaN
    ELSE IF Exact THEN Rat(x[1] * y[2] - y[1] * x[2], x[2] * y[2]) ELSE (x - y) % P

FMul(x, y) ==
    IF IsNaN(x) \/ IsNaN(y) THEN NaN
    ELSE IF Exact THEN Rat(x[1] * y[1], x[2] * y[2]) ELSE (x * y) % P

Inv(y) == CHOOSE z \in 1..(P - 1) : (y * z) % P = 1

FDiv(x, y) ==
    IF IsNaN(x) \/ IsNaN(y) THEN NaN
    ELSE IF Exact THEN Rat(x[1] * y[2], x[2] * y[1])
    ELSE IF y = 0 THEN NaN ELSE (x * Inv(y)) % P

\* a finite float converted to an integer: its fraction is dropped.
Trunc(x) == IF x[1] >= 0 THEN <<x[1] \div x[2], 1>> ELSE <<-((-x[1]) \div x[2]), 1>>

RECURSIVE Pow(_, _)
Pow(x, m) == IF m = 0 THEN 1 ELSE (x * Pow(x, m - 1)) % P

Order(g) == CHOOSE o \in 1..(P - 1) :
               Pow(g, o) = 1 /\ \A s \in 1..(o - 1) : Pow(g, s) # 1

\* exp(1J): the least generator of the units of GF(P).
G == CHOOSE g \in 2..(P - 1) :
        Order(g) = P - 1 /\ \A s \in 2..(g - 1) : Order(s) # P - 1

\* np.exp(1J*m) for an integer m.
ExpI(m) == Pow(G, m % (P - 1))

\* np.sqrt(e) for an energy e that is a square.
Sqrt(e) == CHOOSE k \in 0..e : k * k = e

\* ------------------------------------------------- rows (numpy broadcasting)
Max(x, y) == IF x >= y THEN x ELSE y

\* The array with the elements of f, computed once (numpy computes an array
\* when it is built, not when it is read).
Arr(f) == <<>> \o f

Bc(x, j) == IF Len(x) = 1 THEN x[1] ELSE x[j]

VAdd(x, y) == Arr([j \in 1..Max(Len(x), Len(y)) |-> FAdd(Bc(x, j), Bc(y, j))])

VSub(x, y) == Arr([j \in 1..Max(Len(x), Len(y)) |-> FSub(Bc(x, j), Bc(y, j))])

VMul(x, y) == Arr([j \in 1..Max(Len(x), Len(y)) |-> FMul(Bc(x, j), Bc(y, j))])

VDiv(x, y) == Arr([j \in 1..Max(Len(x), Len(y)) |-> FDiv(Bc(x, j), Bc(y, j))])

Reverse(s) == Arr([i \in 1..Len(s) |-> s[Len(s) + 1 - i]])


\* ------------------------------------------------- numerov (solvers.py)
\* a = 12 + dx*dx * q, one row per position.
CoefA(dx, q) == Arr([i \in 1..Len(q) |-> VAdd(<<Emb(12)>>, VMul(<<Emb(dx * dx)>>, q[i]))])

\* b = 12 - 10*dx*dx * q
CoefBTwelve(dx, q) ==
    Arr([i \in 1..Len(q) |-> VSub(<<Emb(12)>>, VMul(<<Emb(10 * dx * dx)>>, q[i]))])

\* b = 24 - 10*dx*dx * q, one row per position.
CoefB(dx, q) == Arr([i \in 1..Len(q) |-> VSub(<<Emb(24)>>, VMul(<<Emb(10 * dx * dx)>>, q[i]))])

\* (b[i-1]*y[i-1] - a[i-2]*y[i-2]) / a[i], ym1 = y[i-1], ym2 = y[i-2].
NumerovTerm(a, b, i, ym1, ym2) ==
    VDiv(VSub(VMul(b[i - 1], ym1), VMul(a[i - 2], ym2)), a[i])

\* range(2, n): the positions the loop visits, in increasing order.
LoopRange(n) == 3..n

\* no buffer of its own: the values are written over q
NpReuse(h, qid, n) == qid

\* np.empty(n, ...): a buffer of its own (its contents are not initialised:
\* the rows are NaN until they are stored).
NpEmpty(h, qid, n) == "y"

\* dtype=type(y0+y1): the buffer's type is the seeds' type sk.
DType(sk) == sk

\* y[i] = x: what the buffer of type dt holds after a float x is stored.
Store(dt, x) == IF dt = "int" THEN Arr([j \in 1..Len(x) |-> Trunc(x[j])]) ELSE x

\* The buffers a caller owns; every other buffer is the callee's.
CallerOwned == {"e", "v", "q"}

\* The buffer np.empty(n, ...) is one-dimensional: an element of it holds a
\* scalar (or an array of one element), and storing a longer array raises.
Fits(x) == Len(x) = 1

\* y[0:2] = (y0, y1)
StoreSeeds(h, yid, y0, y1) == [h EXCEPT ![yid][1] = y0, ![yid][2] = y1]

\* the loop of the full mode, from position i on: stores y[i] into the buffer.
RECURSIVE FullLoop(_, _, _, _, _, _, _, _)
FullLoop(h, yid, dt, a, b, i, n, cnt) ==
    IF i \notin LoopRange(n) THEN [h |-> h, steps |-> cnt, ok |-> TRUE]
    ELSE LET t == NumerovTerm(a, b, i, h[yid][i - 1], h[yid][i - 2])
         IN  IF ~Fits(t) THEN [h |-> h, steps |-> cnt, ok |-> FALSE]
             ELSE FullLoop([h EXCEPT ![yid][i] = Store(dt, t)],
                           yid, dt, a, b, i + 1, n, cnt + 1)

\* the loop of the partial mode, from position i on: y0, y1 = y1, term.
RECURSIVE PartLoop(_, _, _, _, _, _, _)
PartLoop(a, b, i, n, y0, y1, cnt) ==
    IF i \notin LoopRange(n) THEN [y0 |-> y0, y1 |-> y1, steps |-> cnt]
    ELSE PartLoop(a, b, i + 1, n, y1, NumerovTerm(a, b, i, y1, y0), cnt + 1)

\* numerov(q, y0, y1, dx, full), q the buffer h[qid], sk the type of the
\* seeds.  The result: the heap after the call, whether the call returned or
\* raised, the rows returned (full: y; partial: y0, y1) and the number of
\* loop steps.
Numerov(h, qid, y0, y1, sk, dx, full) ==
    LET q == h[qid]
        n == Len(q)
        a == CoefA(dx, q)
        b == CoefB(dx, q)
    IN  IF full
        THEN LET yid == NpEmpty(h, qid, n)
                 h0  == IF yid \in DOMAIN h THEN h
                        ELSE h @@ (yid :> Arr([i \in 1..n |-> <<NaN>>]))
             IN  IF n < 2 \/ ~Fits(y0) \/ ~Fits(y1)
                 THEN [h |-> h0, st |-> "raised", ret |-> <<>>, steps |-> 0]
                 ELSE LET r == FullLoop(StoreSeeds(h0, yid, y0, y1), yid, DType(sk),
                                        a, b, 3, n, 0)
                      IN  IF r.ok
                          THEN [h |-> r.h, st |-> "returned", ret |-> r.h[yid],
                                steps |-> r.steps]
                          ELSE [h |-> r.h, st |-> "raised", ret |-> <<>>,
                                steps |-> r.steps]
        ELSE LET r == PartLoop(a, b, 3, n, y0, y1, 0)
             IN  [h |-> h, st |-> "returned", ret |-> <<r.y0, r.y1>>, steps |-> r.steps]


\* ------------------------------------------------- scatter1d.py
\* np.exp(mJ*k*dx), k the row of wave numbers, m an integer.
ExpK(k, m, dx) == Arr([j \in 1..Len(k) |-> ExpI(m * k[j] * dx)])

\* unary minus
VNeg(x) == Arr([j \in 1..Len(x) |-> FSub(Emb(0), x[j])])

\* k = np.sqrt(e)
WaveVector(es) == Arr([j \in 1..Len(es) |-> Sqrt(es[j])])

\* v = np.concatenate(((0, 0), v, (0, 0)))
PadV(v) == <<0, 0>> \o v \o <<0, 0>>

\* q = e[0] - v[:, np.newaxis]: every column from the first energy
QFirstEnergy(es, vpad) ==
    Arr([i \in 1..Len(vpad) |-> Arr([j \in 1..Len(es) |-> FSub(Emb(es[1]), vpad[i])])])

\* q = e - v[:, np.newaxis]: meaning of dimensions (position, energy).
QAmplitudes(es, vpad) ==
    Arr([i \in 1..Len(vpad) |-> Arr([j \in 1..Len(es) |-> FSub(Emb(es[j]), vpad[i])])])

\* q = np.concatenate(((0, 0), e-v, (0, 0)))
QWavefunctionBare(e, v) ==
    <<(<<Emb(0)>>), (<<Emb(0)>>)>> \o Arr([i \in 1..Len(v) |-> <<FSub(Emb(e), v[i])>>])
        \o <<(<<Emb(0)>>), (<<Emb(0)>>)>>

\* q = np.concatenate(((e, e), e-v, (e, e)))
QWavefunction(e, v) ==
    <<(<<Emb(e)>>), (<<Emb(e)>>)>> \o Arr([i \in 1..Len(v) |-> <<FSub(Emb(e), v[i])>>])
        \o <<(<<Emb(e)>>), (<<Emb(e)>>)>>

\* q used as it is, whatever the side
Unreversed(q, left) == q

\* if left: q = q[::-1]
Direction(q, left) == IF left THEN Reverse(q) ELSE q

\* y0 = np.exp(-1J*k*dx)
Seed0Conjugate(k, dx) == ExpK(k, -1, dx)

\* y0 = np.exp(1J*k*dx)
Seed0(k, dx) == ExpK(k, 1, dx)

\* y1 = 1.0
Seed1 == <<Emb(1)>>

\* type(y0 + y1) of these seeds: np.complex128
SeedType == "complex"

\* det = np.exp(1J*k*dx) - np.exp(-1J*k*dx)
Det(k, dx) == VSub(ExpK(k, 1, dx), ExpK(k, -1, dx))

\* the incident coefficient with the two matching values exchanged
CoefIncidentSwapped(k, n, dx, left, y0, y1) ==
    IF left
    THEN VDiv(VSub(VMul(ExpK(k, 2, dx), y1), VMul(ExpK(k, 1, dx), y0)), Det(k, dx))
    ELSE VDiv(VSub(VMul(ExpK(k, n + 1, dx), y1), VMul(ExpK(k, n, dx), y0)), Det(k, dx))

\* the incident coefficient a of the free propagation ansatz
CoefIncident(k, n, dx, left, y0, y1) ==
    IF left
    THEN VDiv(VSub(VMul(ExpK(k, 2, dx), y0), VMul(ExpK(k, 1, dx), y1)), Det(k, dx))
    ELSE VDiv(VSub(VMul(ExpK(k, n + 1, dx), y0), VMul(ExpK(k, n, dx), y1)), Det(k, dx))

\* the reflected coefficient matched at the first two points on both sides
CoefReflectedNear(k, n, dx, left, y0, y1) ==
    VDiv(VAdd(VMul(VNeg(ExpK(k, -2, dx)), y0), VMul(ExpK(k, -1, dx), y1)), Det(k, dx))

\* the reflected coefficient b
CoefReflected(k, n, dx, left, y0, y1) ==
    IF left
    THEN VDiv(VAdd(VMul(VNeg(ExpK(k, -2, dx)), y0), VMul(ExpK(k, -1, dx), y1)), Det(k, dx))
    ELSE VDiv(VAdd(VMul(VNeg(ExpK(k, -(n + 1), dx)), y0), VMul(ExpK(k, -n, dx), y1)),
              Det(k, dx))

\* the transmitted coefficient taken one grid point further out
CoefTransmittedShifted(k, n, dx, left) ==
    IF left THEN ExpK(k, -(n + 1), dx) ELSE ExpK(k, -2, dx)

\* the transmitted coefficient c
CoefTransmitted(k, n, dx, left) == IF left THEN ExpK(k, -n, dx) ELSE ExpK(k, -1, dx)

\* what a call leaves behind: its arguments, the locals the claims speak
\* of, its outcome and the heap after it.
Frame(fn, es, left, full, n, q, s0, s1, num, y0f, y1f, det, a, b, c, ret) ==
    [fn |-> fn, es |-> es, left |-> left, full |-> full, n |-> n, q |-> q,
     s0 |-> s0, s1 |-> s1, st |-> num.st, y |-> num.ret, steps |-> num.steps,
     y0f |-> y0f, y1f |-> y1f, det |-> det, a |-> a, b |-> b, c |-> c,
     ret |-> ret, h |-> num.h]

\* amplitudes(e, v, dx, left): e the row es of energies, v the buffer h[vid].
Amplitudes(h, es, vid, dx, left) ==
    LET n   == Len(h[vid])
        k   == WaveVector(es)
        q   == Direction(QAmplitudes(es, PadV(h[vid])), left)
        num == Numerov(h @@ ("qloc" :> q), "qloc", Seed0(k, dx), Seed1, SeedType, dx, FALSE)
        y0  == num.ret[1]
        y1  == num.ret[2]
        a   == CoefIncident(k, n, dx, left, y0, y1)
        b   == CoefReflected(k, n, dx, left, y0, y1)
        c   == CoefTransmitted(k, n, dx, left)
    IN  Frame("amplitudes", es, left, FALSE, n, q, Seed0(k, dx), Seed1, num,
              y0, y1, Det(k, dx), a, b, c, <<VDiv(b, a), VDiv(c, a)>>)

\* y[2:-2]
StripPadding(y) == Arr([m \in 1..(Len(y) - 4) |-> y[m + 2]])

\* the propagated sequence left as it is, whatever the side
KeepOrder(y, left) == y

\* if left: y = y[::-1]
ReverseBack(y, left) == IF left THEN Reverse(y) ELSE y

\* y / a, row by row
Normalize(y, a) == Arr([m \in 1..Len(y) |-> VDiv(y[m], a)])

\* wavefunction(e, v, dx, left): e a scalar, v the buffer h[vid].
Wavefunction(h, e, vid, dx, left) ==
    LET n   == Len(h[vid])
        k   == WaveVector(<<e>>)
        q   == Direction(QWavefunction(e, h[vid]), left)
        num == Numerov(h @@ ("qloc" :> q), "qloc", Seed0(k, dx), Seed1, SeedType, dx, TRUE)
        y0  == num.ret[Len(num.ret) - 1]
        y1  == num.ret[Len(num.ret)]
        y   == ReverseBack(num.ret, left)
        a   == CoefIncident(k, n, dx, left, y0, y1)
    IN  Frame("wavefunction", <<e>>, left, TRUE, n, q, Seed0(k, dx), Seed1, num,
              y0, y1, Det(k, dx), a, <<>>, <<>>, Normalize(StripPadding(y), a))

\* a direct call numerov(q, y0, y1, dx, full) on the caller's buffer "q".
NumerovCall(h, y0, y1, sk, dx, full) ==
    LET num == Numerov(h, "q", y0, y1, sk, dx, full)
    IN  Frame("numerov", <<>>, FALSE, full, Len(h["q"]), h["q"], y0, y1, num,
              <<>>, <<>>, <<>>, <<>>, <<>>, <<>>, num.ret)


\* ------------------------------------------------- the callers
SeqsUpTo(S, n) == UNION {[1..m -> S] : m \in 0..n}

Energies == {k * k : k \in 0..MaxK}

DxVals == (-1)..MaxDx

NoNum == [h |-> <<>>, st |-> "none", ret |-> <<>>, steps |-> 0]

NoFrame ==
    Frame("none", <<>>, FALSE, FALSE, 0, <<>>, <<>>, <<>>, NoNum,
          <<>>, <<>>, <<>>, <<>>, <<>>, <<>>, <<>>)
        @@ [key |-> <<"none", 0, FALSE>>]

InitSolver ==
    /\ sess = "solver"
    /\ heap \in {[e |-> <<>>, v |-> <<>>, q |-> qq] :
                    qq \in SeqsUpTo({<<Emb(x)>> : x \in 0..MaxVal}, MaxQ)}
    /\ dxin \in DxVals
    /\ s0in \in {<<Emb(x)>> : x \in 0..MaxVal}
    /\ s1in \in {<<Emb(x)>> : x \in 0..MaxVal}
    /\ skind \in {"int", "float"}

InitScatter ==
    /\ sess = "scatter"
    /\ heap \in {[e |-> es, v |-> v, q |-> <<>>] :
                    es \in SeqsUpTo(Energies, MaxE) \ {<<>>},
                    v \in SeqsUpTo(0..MaxV, MaxN)}
    /\ dxin \in DxVals
    /\ s0in = <<0>>
    /\ s1in = <<0>>
    /\ skind = "float"

NoCallYet ==
    /\ calls = 0
    /\ fr = NoFrame
    /\ out = {}

Init ==
    /\ InitSolver \/ InitScatter
    /\ NoCallYet

\* the call returns (or raises) to the caller.
Return(key, res) ==
    /\ calls' = calls + 1
    /\ heap' = [b \in CallerOwned |-> res.h[b]]
    /\ fr' = [res EXCEPT !.h = heap] @@ [key |-> key]
    /\ out' = IF \E o \in out : o.key = key THEN out
              ELSE out \cup {[key |-> key, st |-> res.st, ret |-> res.ret,
                               q |-> res.q, s0 |-> res.s0, s1 |-> res.s1,
                               y0f |-> res.y0f, y1f |-> res.y1f, a |-> res.a]}
    /\ UNCHANGED <<sess, dxin, s0in, s1in, skind>>

CallNumerov(full) ==
    /\ sess = "solver"
    /\ calls < MaxCalls
    /\ Return(<<"numerov", 0, full>>, NumerovCall(heap, s0in, s1in, skind, dxin, full))

\* sel = 0: the whole array of energies; sel = j: the scalar energy e[j].
CallAmplitudes(sel, left) ==
    /\ sess = "scatter"
    /\ calls < MaxCalls
    /\ LET es == IF sel = 0 THEN heap.e ELSE <<heap.e[sel]>>
       IN  Return(<<"amplitudes", sel, left>>, Amplitudes(heap, es, "v", dxin, left))

CallWavefunction(j, left) ==
    /\ sess = "scatter"
    /\ calls < MaxCalls
    /\ Return(<<"wavefunction", j, left>>, Wavefunction(heap, heap.e[j], "v", dxin, left))

NextSolver == \E full \in BOOLEAN : CallNumerov(full)

NextScatter ==
    \/ \E sel \in 0..Len(heap.e), left \in BOOLEAN : CallAmplitudes(sel, left)
    \/ \E j \in 1..Len(heap.e), left \in BOOLEAN : CallWavefunction(j, left)

Next == NextSolver \/ NextScatter

\* every session
Spec == Init /\ [][Next]_vars

\* the sessions of a direct caller of numerov
SolverStart == InitSolver /\ NoCallYet

SpecSolver == SolverStart /\ [][NextSolver]_vars

\* the sessions of a scattering script
ScatterStart == InitScatter /\ NoCallYet

SpecScatter == ScatterStart /\ [][NextScatter]_vars

\* ------------------------------------------------- the mirrored potential
\* amplitudes(e, v[::-1], dx, left=False): the caller mirrors its potential
\* and lets the particle come from the right.
CallAmplitudesMirrored(sel) ==
    /\ sess = "scatter"
    /\ calls < MaxCalls
    /\ LET es == IF sel = 0 THEN heap.e ELSE <<heap.e[sel]>>
       IN  Return(<<"mirrored", sel, FALSE>>,
                  Amplitudes(heap @@ ("vrev" :> Reverse(heap.v)), es, "vrev", dxin, FALSE))

NextMirror ==
    \/ \E sel \in 0..Len(heap.e) : CallAmplitudes(sel, TRUE)
    \/ \E sel \in 0..Len(heap.e) : CallAmplitudesMirrored(sel)

\* the sessions of a script that compares a potential with its mirror image
SpecMirror == ScatterStart /\ [][NextMirror]_vars

\* ------------------------------------------------- q of several columns
\* A direct caller of numerov whose q has an extra trailing dimension of E
\* columns: the seeds are scalars or arrays of E values.
Rows(E) == {Arr([j \in 1..E |-> Emb(f[j])]) : f \in [1..E -> 0..MaxBatchVal]}

InitBatch ==
    /\ sess = "batch"
    /\ \E E \in 1..MaxCols :
         /\ heap \in {[e |-> <<>>, v |-> <<>>, q |-> qq] :
                         qq \in SeqsUpTo(Rows(E), MaxBatchQ) \ {<<>>}}
         /\ s0in \in Rows(1) \cup Rows(E)
         /\ s1in \in Rows(1) \cup Rows(E)
    /\ dxin \in 1..MaxDx
    /\ skind = "float"

\* the number of columns of q
Cols == Len(heap.q[1])

\* q[:, j]
Column(q, j) == Arr([i \in 1..Len(q) |-> <<q[i][j]>>])

\* sel = 0: numerov(q, y0, y1, dx, full); sel = j: numerov on the column j
\* alone, numerov(q[:, j], y0[j], y1[j], dx, full), a seed that is a scalar
\* taken as it is.
CallNumerovColumn(sel, full) ==
    /\ sess = "batch"
    /\ calls < MaxCalls
    /\ LET num == IF sel = 0
                  THEN Numerov(heap, "q", s0in, s1in, skind, dxin, full)
                  ELSE Numerov(heap @@ ("qcol" :> Column(heap.q, sel)), "qcol",
                               <<Bc(s0in, sel)>>, <<Bc(s1in, sel)>>, skind, dxin, full)
       IN  Return(<<"numerov", sel, full>>,
                  Frame("numerov", <<>>, FALSE, full, Len(heap.q), heap.q, s0in, s1in, num,
                        <<>>, <<>>, <<>>, <<>>, <<>>, <<>>, num.ret))

NextBatch == \E sel \in 0..Cols, full \in BOOLEAN : CallNumerovColumn(sel, full)

BatchStart == InitBatch /\ NoCallYet

SpecBatch == BatchStart /\ [][NextBatch]_vars

\* ------------------------------------------------- what the claims speak of
\* the first call of numerov in the given mode, if there was one
FirstNumerov(full) == {o \in out : o.key = <<"numerov", 0, full>>}

\* a = 12 + dx*dx*q and b = 24 - 10*dx*dx*q at position i of the last call
LastA(i) == FAdd(Emb(12), FMul(Emb(dxin * dxin), fr.q[i][1]))

LastB(i) == FSub(Emb(24), FMul(Emb(10 * dxin * dxin), fr.q[i][1]))

\* the recursion's value at position i, from the two returned before it
LastTerm(i) ==
    FDiv(FSub(FMul(LastB(i - 1), fr.ret[i - 1][1]), FMul(LastA(i - 2), fr.ret[i - 2][1])),
         LastA(i))

\* ------------------------------------------------- C1
\* C1: for q of length n >= 2, any seeds and any dx, the two values numerov
\* returns with full=False equal the last two elements of what it returns
\* with full=True on the same arguments.
C1_PartialIsTailOfFull ==
    \A f \in FirstNumerov(TRUE), p \in FirstNumerov(FALSE) :
        Len(heap.q) >= 2 =>
            /\ f.st = "returned" /\ p.st = "returned"
            /\ p.ret = <<f.ret[Len(f.ret) - 1], f.ret[Len(f.ret)]>>

\* C1 for seeds that are floats: the buffer of the full mode holds floats.
C1_FloatSeeds == skind = "float" => C1_PartialIsTailOfFull

\* ------------------------------------------------- C2
\* C2: numerov with full=True returns n = len(q) values, the first two the
\* seeds, every later one (b[i-1]*y[i-1] - a[i-2]*y[i-2]) / a[i], after
\* exactly n-2 loop steps.
C2_FullIsRecursion ==
    (fr.fn = "numerov" /\ fr.full /\ fr.n >= 2) =>
        /\ fr.st = "returned"
        /\ Len(fr.ret) = fr.n
        /\ fr.ret[1] = fr.s0 /\ fr.ret[2] = fr.s1
        /\ \A i \in 3..fr.n : fr.ret[i] = <<LastTerm(i)>>
        /\ fr.steps = fr.n - 2

\* C2 for seeds that are floats.
C2_FloatSeeds == skind = "float" => C2_FullIsRecursion

\* ------------------------------------------------- C3
\* the position, in propagation order, of the potential's sample point m
PropagationIndex(m) == IF fr.left THEN fr.n + 3 - m ELSE m + 2

\* C3: wavefunction returns exactly n values in the potential's order:
\* element m is the propagated value of the sample point m (where the
\* coefficient is e - v[m]) divided by the incident coefficient a, for
\* both incidence sides.
C3_WavefunctionAligned ==
    fr.fn = "wavefunction" =>
        /\ Len(fr.ret) = Len(heap.v)
        /\ \A m \in 1..Len(heap.v) :
              /\ fr.q[PropagationIndex(m)] = <<FSub(Emb(fr.es[1]), heap.v[m])>>
              /\ fr.ret[m] = VDiv(fr.y[PropagationIndex(m)], fr.a)

\* a wave function of a left-incident particle on a potential of two
\* different values, its two values finite and different
C3_Witness ==
    /\ fr.fn = "wavefunction" /\ fr.left
    /\ Len(heap.v) = 2 /\ heap.v[1] # heap.v[2]
    /\ ~IsNaN(fr.ret[1][1]) /\ ~IsNaN(fr.ret[2][1])
    /\ fr.ret[1] # fr.ret[2]

\* ------------------------------------------------- C4
\* the first call of amplitudes with selection sel and the given side
FirstAmplitudes(sel, left) == {o \in out : o.key = <<"amplitudes", sel, left>>}

\* C4: amplitudes on a sequence of energies returns r and t of the same
\* length and order, and the (r, t) of the j-th energy is what amplitudes
\* returns for that energy alone, same potential, dx and side.
C4_BatchIsPerEnergy ==
    \A left \in BOOLEAN : \A o \in FirstAmplitudes(0, left) :
        /\ Len(o.ret[1]) = Len(heap.e) /\ Len(o.ret[2]) = Len(heap.e)
        /\ \A j \in 1..Len(heap.e) : \A s \in FirstAmplitudes(j, left) :
              /\ s.ret[1] = <<o.ret[1][j]>>
              /\ s.ret[2] = <<o.ret[2][j]>>

\* a batch of two energies and the call for its second energy alone, the
\* two energies' finite reflection amplitudes different
C4_Witness ==
    \E left \in BOOLEAN : \E o \in FirstAmplitudes(0, left) : \E s \in FirstAmplitudes(2, left) :
        /\ Len(heap.e) = 2 /\ Len(heap.v) > 0
        /\ ~IsNaN(o.ret[1][1]) /\ ~IsNaN(o.ret[1][2])
        /\ o.ret[1][1] # o.ret[1][2]
        /\ s.ret[1] = <<o.ret[1][2]>>
\* ------------------------------------------------- zero potential
ZeroPotential == \A m \in 1..Len(heap.v) : heap.v[m] = 0

\* w = exp(i*k*dx) for the energy e
LeadPhase(e) == ExpI(Sqrt(e) * dxin)

\* The plane wave exp(i*k*x) solves the recursion of the leads (q = e)
\* exactly: a*(w*w + 1) = b*w with a = 12 + dx*dx*e, b = 24 - 10*dx*dx*e,
\* where a # 0 and w*w # 1 (k*dx is no multiple of pi).  In floating point
\* this holds up to an error of order (k*dx)^6.
LeadExact(e) ==
    LET w == LeadPhase(e)
        a == FAdd(Emb(12), Emb(dxin * dxin * e))
        b == FSub(Emb(24), Emb(10 * dxin * dxin * e))
    IN  /\ a # 0
        /\ FMul(w, w) # 1
        /\ FMul(a, FAdd(FMul(w, w), 1)) = FMul(b, w)

FreeWavefunction ==
    fr.fn = "wavefunction" /\ ZeroPotential /\ LeadExact(fr.es[1])

\* exp(s*i*k*x_m) at the grid point x_m = m*dx, which is position m + 1
PlaneWave(s, m) == ExpI(s * Sqrt(fr.es[1]) * m * dxin)

ScatterCall == fr.fn \in {"amplitudes", "wavefunction"}

\* C8: amplitudes and wavefunction reject an empty potential (n = 0) and a
\* non-positive step (dx <= 0) with an error, returning no numeric result.
C8_InvalidInputRejected ==
    (ScatterCall /\ (Len(heap.v) = 0 \/ dxin <= 0)) =>
        (fr.st = "raised" /\ fr.ret = <<>>)

\* ------------------------------------------------- C9
\* a row without a non-finite value
Finite(row) == \A j \in 1..Len(row) : ~IsNaN(row[j])

\* the matching denominator or a recursion coefficient a_i = 12 + dx^2 q_i
\* is zero for the energy in column j of the last call
Degenerate(j) ==
    \/ fr.det[j] = 0
    \/ \E i \in 1..Len(fr.q) : FAdd(Emb(12), FMul(Emb(dxin * dxin), fr.q[i][j])) = 0

\* C9: a call hands back no non-finite value: when the matching
\* denominator or a coefficient a_i is zero for an energy, the caller gets
\* an error for it and no value, and every value returned is finite.
C9_NoSilentNonFinite ==
    ScatterCall =>
        /\ (\E j \in 1..Len(fr.es) : Degenerate(j)) => fr.st = "raised"
        /\ fr.st = "returned" => \A i \in 1..Len(fr.ret) : Finite(fr.ret[i])

\* ------------------------------------------------- C10
\* the outcome of the first call with the key of the last call
FirstSame == {o \in out : o.key = fr.key}

\* C10: after any call the caller's potential, energies and q hold what
\* they held before it, and a call repeated with the same arguments has
\* the outcome of the first.
C10_InputsOnlyRead ==
    fr.fn # "none" =>
        /\ heap = fr.h
        /\ \A o \in FirstSame : o.st = fr.st /\ o.ret = fr.ret

\* a second wavefunction call for a left-incident particle (reversal and
\* padding, full mode) on a potential of two different values
C10_Witness ==
    /\ fr.fn = "wavefunction" /\ fr.left /\ calls = 2 /\ Cardinality(out) = 1
    /\ Len(heap.v) = 2 /\ heap.v[1] # heap.v[2]
    /\ Len(fr.ret) = 2 /\ Finite(fr.ret[1]) /\ Finite(fr.ret[2])
\* ------------------------------------------------- C11
\* the first call of numerov on the whole q (sel = 0) or on its column sel
FirstNumerovColumn(sel, full) == {o \in out : o.key = <<"numerov", sel, full>>}

\* the value for column j in a returned row: a row of one value (the loop
\* did not run and the seed was a scalar) stands for every column
InColumn(row, j) == IF Len(row) = 1 THEN row[1] ELSE row[j]

\* what numerov returned for q is, in column j, what it returned for the
\* column j alone
SameInColumn(o, s, j) ==
    s.st = "returned" =>
        /\ o.st = "returned"
        /\ Len(o.ret) = Len(s.ret)
        /\ \A i \in 1..Len(s.ret) : InColumn(o.ret[i], j) = s.ret[i][1]

\* C11 as stated: for a q of E columns numerov produces, in full mode as
\* well as in partial mode, for every column the values it produces when
\* run on that column alone with the seeds of that column.
C11_ColumnsBothModes ==
    \A full \in BOOLEAN : \A o \in FirstNumerovColumn(0, full) :
        \A j \in 1..Cols : \A s \in FirstNumerovColumn(j, full) : SameInColumn(o, s, j)

\* C11 for the partial mode: for a q of E columns numerov produces for
\* every column the two values it produces when run on that column alone
\* with the seeds of that column.
C11_ColumnsPartialMode ==
    \A o \in FirstNumerovColumn(0, FALSE) :
        \A j \in 1..Cols : \A s \in FirstNumerovColumn(j, FALSE) :
            /\ o.st = "returned" /\ s.st = "returned"
            /\ Len(o.ret) = 2
            /\ s.ret = <<(<<InColumn(o.ret[1], j)>>), (<<InColumn(o.ret[2], j)>>)>>
\* ------------------------------------------------- C12
\* q is identically zero
ZeroQ == \A i \in 1..Len(heap.q) : heap.q[i] = <<Emb(0)>>

\* y0 + i*(y1 - y0) for the seeds of the last call
Linear(i) == FAdd(fr.s0[1], FMul(Emb(i), FSub(fr.s1[1], fr.s0[1])))

PaddedPotential(p) == IF p \in 3..(Len(heap.v) + 2) THEN heap.v[p - 2] ELSE 0

\* C14: in amplitudes and in wavefunction the coefficient sequence handed
\* to the integrator has n + 4 elements; for right incidence it is
\* [e, e, e-v_0, .., e-v_{n-1}, e, e], for left incidence its reversal
\* (for every energy of a batch).
C14_CoefficientSequence ==
    ScatterCall =>
        /\ Len(fr.q) = Len(heap.v) + 4
        /\ \A i \in 1..Len(fr.q) :
              /\ Len(fr.q[i]) = Len(fr.es)
              /\ \A j \in 1..Len(fr.es) :
                    fr.q[i][j] = FSub(Emb(fr.es[j]),
                        PaddedPotential(IF fr.left THEN Len(heap.v) + 5 - i ELSE i))

\* amplitudes for a left-incident particle on a potential of two different
\* values: e - v_1 comes before e - v_0, between two leads of e, e
C14_Witness ==
    /\ fr.fn = "amplitudes" /\ fr.left
    /\ Len(heap.v) = 2 /\ heap.v[1] # heap.v[2]
    /\ fr.es[1] > 0 /\ fr.q[3] # fr.q[4]
    /\ fr.q[3][1] = FSub(Emb(fr.es[1]), heap.v[2])
    /\ fr.q[1][1] = Emb(fr.es[1]) /\ fr.q[6][1] = Emb(fr.es[1])
\* ------------------------------------------------- C15
\* the first call with the given key
First(key) == {o \in out : o.key = key}

\* the fixed phase exp(2*i*k*(n-1)*dx) for the energy e
MirrorPhase(e) == ExpI(2 * Sqrt(e) * (Len(heap.v) - 1) * dxin)

\* the energies of the call with selection sel
Selected(sel) == IF sel = 0 THEN heap.e ELSE <<heap.e[sel]>>

\* C15: amplitudes(e, v, dx, left=True) and amplitudes(e, reverse(v), dx,
\* left=False) hand the same coefficient sequence and seeds to the
\* integrator, get the same tail values and return the same t, and
\* r_left = r_right * exp(2*i*k*(n-1)*dx).
C15_MirrorSymmetry ==
    \A sel \in 0..Len(heap.e) :
        \A l \in First(<<"amplitudes", sel, TRUE>>) : \A m \in First(<<"mirrored", sel, FALSE>>) :
            /\ l.q = m.q /\ l.s0 = m.s0 /\ l.s1 = m.s1
            /\ l.y0f = m.y0f /\ l.y1f = m.y1f
            /\ l.ret[2] = m.ret[2]
            /\ \A j \in 1..Len(Selected(sel)) :
                  l.ret[1][j] = FMul(m.ret[1][j], MirrorPhase(Selected(sel)[j]))

\* the two calls on a potential of two different values, r finite and not
\* zero, the phase not 1
C15_Witness ==
    \E l \in First(<<"amplitudes", 1, TRUE>>) : \E m \in First(<<"mirrored", 1, FALSE>>) :
        /\ Len(heap.v) = 2 /\ heap.v[1] # heap.v[2]
        /\ ~IsNaN(l.ret[1][1]) /\ l.ret[1][1] # 0 /\ ~IsNaN(l.ret[2][1])
        /\ l.ret[1] # m.ret[1]
        /\ l.ret[2] = m.ret[2]
\* ------------------------------------------------- C16
\* C16: for the same scalar energy, potential, dx and side, wavefunction
\* and amplitudes hand the same coefficient sequence and the same seeds
\* (exp(i*k*dx), 1), whatever the side, to the integrator; both match on
\* the last two propagated values in propagation order and compute the
\* same incident coefficient a, by which the wave function is divided.
C16_EntryPointsConsistent ==
    /\ \A j \in 1..Len(heap.e) : \A left \in BOOLEAN :
          \A A \in First(<<"amplitudes", j, left>>) : \A W \in First(<<"wavefunction", j, left>>) :
              /\ A.q = W.q
              /\ A.s0 = <<LeadPhase(heap.e[j])>> /\ W.s0 = A.s0
              /\ A.s1 = <<1>> /\ W.s1 = A.s1
              /\ A.y0f = W.y0f /\ A.y1f = W.y1f
              /\ A.a = W.a
    /\ fr.fn = "wavefunction" =>
          /\ fr.y0f = fr.y[Len(fr.y) - 1] /\ fr.y1f = fr.y[Len(fr.y)]
          /\ \A A \in First(<<"amplitudes", fr.key[2], fr.left>>) :
                \A m \in 1..Len(heap.v) :
                    fr.ret[m] = VDiv(fr.y[PropagationIndex(m)], A.a)

\* amplitudes, then wavefunction, for a left-incident particle of the same
\* energy on a potential of two different values: a is finite and not
\* zero, and not 1
C16_Witness ==
    \E A \in First(<<"amplitudes", 1, TRUE>>) :
        /\ fr.key = <<"wavefunction", 1, TRUE>>
        /\ Len(heap.v) = 2 /\ heap.v[1] # heap.v[2]
        /\ ~IsNaN(A.a[1]) /\ A.a[1] # 0 /\ A.a[1] # 1
        /\ fr.a = A.a
        /\ Finite(fr.ret[1]) /\ Finite(fr.ret[2])
=============================================================================
